---- MODULE Spec2Model ----
(***************************************************************************)
(* Model of the snowflake crate (src/src/lib.rs): a process-wide atomic    *)
(* counter GLOBAL_COUNTER advanced by the load / compare-and-swap loop of  *)
(* next_global(), and one lazily initialised thread-local Snowflake per    *)
(* thread from which Snowflake::new() hands out (prefix, offset) pairs.    *)
(*                                                                         *)
(* Every access to GLOBAL_COUNTER is a step of its own (Load, Cas); the    *)
(* thread-local code that follows an access (the assert at the loop head,  *)
(* the return into new(), the write of the slot) belongs to the step of    *)
(* that access, since no other thread can observe it.                      *)
(* usize and u64 are scaled down to the ranges 0..USIZE_MAX and            *)
(* 0..U64_MAX; arithmetic wraps modulo the width as the machine's does.    *)
(* A panic unwinds out of new(); the thread may end (Terminate) or, having *)
(* caught the panic, call new() again.                                     *)
(***************************************************************************)
EXTENDS Integers, Sequences, FiniteSets, TLC

\* ---------------------------------------------------------------- bounds
\* number of threads of the process
NThreads == 2
\* usize::MAX, scaled down
USIZE_MAX == 3
\* u64::MAX, scaled down
U64_MAX == 2
\* how many calls of one thread may end in the exhaustion panic
MaxFail == 2
\* how many calls of default() the process makes (SpecDefault)
MaxDefault == 2

Threads == 1..NThreads

VARIABLES
    GLOBAL_COUNTER,        \* static GLOBAL_COUNTER: AtomicUsize
    initialized,           \* thread -> has the thread_local! initialiser run
    NEXT_LOCAL_SNOWFLAKE,  \* thread -> the thread-local Snowflake
    pc,                    \* thread -> "idle" | "load" | "cas" | "dead"
    ctx,                   \* thread -> who called next_global: "init" | "roll" | "none"
    prev,                  \* thread -> the local `prev` of next_global
    issued,                \* history: thread -> Seq of the Snowflakes new() returned
    acquired,              \* history: thread -> Seq of the values next_global() returned
    failed,                \* history: thread -> number of new() calls that panicked
    raced,                 \* history: has a compare-and-swap failed
    late,                  \* history: thread -> its first call began after a thread had ended
    scripted,              \* history: the calls so far ran one at a time in the order
                           \* thread 1, thread 2, thread 1, thread 1, ...
    ops,                   \* history, kept by SpecCounted: thread -> accesses to
                           \* GLOBAL_COUNTER made by its latest call of new()
    via,                   \* history, kept by SpecDefault: thread -> the entry point of the
                           \* call inside next_global: "new" | "default" | "none"
    nDefault               \* history, kept by SpecDefault: calls of default() so far

\* the program's state and the histories every specification keeps
coreVars == <<GLOBAL_COUNTER, initialized, NEXT_LOCAL_SNOWFLAKE, pc, ctx, prev,
              issued, acquired, failed, raced, late, scripted>>
\* the histories only one specification keeps
aux == <<ops, via, nDefault>>
vars == <<coreVars, aux>>

\* ------------------------------------------------------- pure operators

\* struct Snowflake { prefix: usize, offset: u64 }
Snowflake(p, o) == [prefix |-> p, offset |-> o]

\* the content of a thread-local slot whose initialiser has not run
NoSnowflake == Snowflake(0, 0)

\* static GLOBAL_COUNTER: AtomicUsize = ATOMIC_USIZE_INIT
ATOMIC_USIZE_INIT == 0

\* assert!(prev < usize::MAX, ...)
AssertOkInclusive(p) == p <= USIZE_MAX
AssertOkNoCheck(p) == TRUE
AssertOkEarly(p) == p + 1 < USIZE_MAX
AssertOk(p) == p < USIZE_MAX

\* prev + 1 on a usize
SuccPrevByTwo(p) == (p + 2) % (USIZE_MAX + 1)
SuccPrevStuck(p) == p
SuccPrev(p) == (p + 1) % (USIZE_MAX + 1)

\* AtomicUsize::compare_and_swap(current, new): the value stored afterwards
CasStoreAlways(cur, expected, new) == new
CasStore(cur, expected, new) == IF cur = expected THEN new ELSE cur

\* if old_value == prev
CasWonAlways(old_value, p) == TRUE
CasWon(old_value, p) == old_value = p

\* Snowflake { prefix: next_global(), offset: 0 } of the thread_local! initialiser
InitSnowflakeSharedPrefix(p) == Snowflake(0, 0)
InitSnowflake(p) == Snowflake(p, 0)

\* Snowflake { prefix: next_global(), offset: 0 } of the rollover branch
RolloverSnowflakeFromOne(p) == Snowflake(p, 1)
RolloverSnowflake(p) == Snowflake(p, 0)

\* if next_snowflake.offset == u64::MAX
AtBoundaryEarly(s) == s.offset >= U64_MAX - 1
AtBoundaryNever(s) == FALSE
AtBoundary(s) == s.offset = U64_MAX

\* (*snowflake.get()).offset += 1 on a u64
BumpOffsetByTwo(s) == [s EXCEPT !.offset = (s.offset + 2) % (U64_MAX + 1)]
BumpOffsetNot(s) == s
BumpOffset(s) == [s EXCEPT !.offset = (s.offset + 1) % (U64_MAX + 1)]

\* #[derive(PartialEq, Eq)] on Snowflake
SnowflakeEq(a, b) == a.prefix = b.prefix /\ a.offset = b.offset

\* ---------------------------------------------------------------- state

Init ==
    /\ GLOBAL_COUNTER = ATOMIC_USIZE_INIT
    /\ initialized = [t \in Threads |-> FALSE]
    /\ NEXT_LOCAL_SNOWFLAKE = [t \in Threads |-> NoSnowflake]
    /\ pc = [t \in Threads |-> "idle"]
    /\ ctx = [t \in Threads |-> "none"]
    /\ prev = [t \in Threads |-> 0]
    /\ issued = [t \in Threads |-> <<>>]
    /\ acquired = [t \in Threads |-> <<>>]
    /\ failed = [t \in Threads |-> 0]
    /\ raced = FALSE
    /\ late = [t \in Threads |-> FALSE]
    /\ scripted = TRUE
    /\ ops = [t \in Threads |-> 0]
    /\ via = [t \in Threads |-> "none"]
    /\ nDefault = 0

\* the threads that are inside next_global()
InNextGlobal == {u \in Threads : pc[u] \in {"load", "cas"}}
\* the threads that have terminated
Dead == {u \in Threads : pc[u] = "dead"}
\* thread t has not called new() before
FirstCall(t) == Len(acquired[t]) = 0 /\ failed[t] = 0
\* it is thread t's turn in the order thread 1, thread 2, thread 1, thread 1, ...
ScriptTurn(t) ==
    \/ t = 1 /\ Len(issued[1]) = 0 /\ \A u \in Threads \ {1} : FirstCall(u)
    \/ t = 2 /\ Len(issued[1]) = 1 /\ FirstCall(2)
    \/ t = 1 /\ Len(issued[1]) >= 1 /\ Len(issued[2]) = 1

\* The closure of Snowflake::new() run by thread t on the slot content cur:
\* the fast path returns cur and bumps the offset; at the boundary the
\* thread enters next_global() and the slot keeps cur until it returns.
ClosureEager(t, cur) ==
    IF AtBoundary(cur)
    THEN /\ NEXT_LOCAL_SNOWFLAKE' =
                [NEXT_LOCAL_SNOWFLAKE EXCEPT ![t] = [cur EXCEPT !.offset = 0]]
         /\ pc' = [pc EXCEPT ![t] = "load"]
         /\ ctx' = [ctx EXCEPT ![t] = "roll"]
         /\ issued' = issued
    ELSE /\ NEXT_LOCAL_SNOWFLAKE' = [NEXT_LOCAL_SNOWFLAKE EXCEPT ![t] = BumpOffset(cur)]
         /\ pc' = [pc EXCEPT ![t] = "idle"]
         /\ ctx' = [ctx EXCEPT ![t] = "none"]
         /\ issued' = [issued EXCEPT ![t] = Append(@, cur)]
ClosureStatic(t, cur) ==
    IF AtBoundary(cur)
    THEN /\ NEXT_LOCAL_SNOWFLAKE' = [NEXT_LOCAL_SNOWFLAKE EXCEPT ![t] = cur]
         /\ pc' = [pc EXCEPT ![t] = "load"]
         /\ ctx' = [ctx EXCEPT ![t] = "roll"]
         /\ issued' = issued
    ELSE /\ NEXT_LOCAL_SNOWFLAKE' =
                [u \in Threads |-> IF u = t \/ initialized[u]
                                   THEN BumpOffset(cur)
                                   ELSE NEXT_LOCAL_SNOWFLAKE[u]]
         /\ pc' = [pc EXCEPT ![t] = "idle"]
         /\ ctx' = [ctx EXCEPT ![t] = "none"]
         /\ issued' = [issued EXCEPT ![t] = Append(@, cur)]
Closure(t, cur) ==
    IF AtBoundary(cur)
    THEN /\ NEXT_LOCAL_SNOWFLAKE' = [NEXT_LOCAL_SNOWFLAKE EXCEPT ![t] = cur]
         /\ pc' = [pc EXCEPT ![t] = "load"]
         /\ ctx' = [ctx EXCEPT ![t] = "roll"]
         /\ issued' = issued
    ELSE /\ NEXT_LOCAL_SNOWFLAKE' = [NEXT_LOCAL_SNOWFLAKE EXCEPT ![t] = BumpOffset(cur)]
         /\ pc' = [pc EXCEPT ![t] = "idle"]
         /\ ctx' = [ctx EXCEPT ![t] = "none"]
         /\ issued' = [issued EXCEPT ![t] = Append(@, cur)]

\* Snowflake::new() is called on thread t: NEXT_LOCAL_SNOWFLAKE.with runs the
\* initialiser first when the slot is empty (it stays empty when the
\* initialiser panics), else the closure.
New(t) ==
    /\ pc[t] = "idle"
    /\ failed[t] < MaxFail
    /\ late' = [late EXCEPT ![t] = IF FirstCall(t) THEN Dead # {} ELSE @]
    /\ scripted' = (scripted /\ InNextGlobal = {} /\ ScriptTurn(t))
    /\ IF ~initialized[t]
       THEN /\ pc' = [pc EXCEPT ![t] = "load"]
            /\ ctx' = [ctx EXCEPT ![t] = "init"]
            /\ UNCHANGED <<NEXT_LOCAL_SNOWFLAKE, issued>>
       ELSE Closure(t, NEXT_LOCAL_SNOWFLAKE[t])
    /\ UNCHANGED <<GLOBAL_COUNTER, initialized, prev, acquired, failed, raced>>

\* The head of the loop of next_global() with prev = p:
\* assert!(prev < usize::MAX, ...).  The panic unwinds out of new() before the
\* slot is written, so the slot (or its emptiness) is as it was.
LoopHeadWait(t, p) ==
    IF AssertOk(p)
    THEN /\ pc' = [pc EXCEPT ![t] = "cas"]
         /\ prev' = [prev EXCEPT ![t] = p]
         /\ UNCHANGED <<ctx, failed>>
    ELSE /\ pc' = [pc EXCEPT ![t] = "load"]
         /\ UNCHANGED <<prev, ctx, failed>>
LoopHead(t, p) ==
    IF AssertOk(p)
    THEN /\ pc' = [pc EXCEPT ![t] = "cas"]
         /\ prev' = [prev EXCEPT ![t] = p]
         /\ UNCHANGED <<ctx, failed>>
    ELSE /\ pc' = [pc EXCEPT ![t] = "idle"]
         /\ ctx' = [ctx EXCEPT ![t] = "none"]
         /\ prev' = [prev EXCEPT ![t] = 0]
         /\ failed' = [failed EXCEPT ![t] = @ + 1]

\* prev = old_value; and the loop head again
RetryHeadUnchecked(t, p) ==
    /\ pc' = [pc EXCEPT ![t] = "cas"]
    /\ prev' = [prev EXCEPT ![t] = p]
    /\ UNCHANGED <<ctx, failed>>
RetryHeadStale(t, p) ==
    /\ pc' = [pc EXCEPT ![t] = "cas"]
    /\ UNCHANGED <<prev, ctx, failed>>
RetryHead(t, p) == LoopHead(t, p)

\* let mut prev = GLOBAL_COUNTER.load(Ordering::Relaxed); and the loop head
LoadFetchAdd(t) ==
    /\ pc[t] = "load"
    /\ IF AssertOk(GLOBAL_COUNTER)
       THEN /\ GLOBAL_COUNTER' = SuccPrev(GLOBAL_COUNTER)
            /\ acquired' = [acquired EXCEPT ![t] = Append(@, GLOBAL_COUNTER)]
            /\ prev' = [prev EXCEPT ![t] = 0]
            /\ initialized' = [initialized EXCEPT ![t] = TRUE]
            /\ NEXT_LOCAL_SNOWFLAKE' = [NEXT_LOCAL_SNOWFLAKE EXCEPT ![t] =
                   IF ctx[t] = "init" THEN BumpOffset(InitSnowflake(GLOBAL_COUNTER))
                                      ELSE RolloverSnowflake(GLOBAL_COUNTER)]
            /\ issued' = [issued EXCEPT ![t] = Append(@,
                   IF ctx[t] = "init" THEN InitSnowflake(GLOBAL_COUNTER)
                                      ELSE NEXT_LOCAL_SNOWFLAKE[t])]
            /\ pc' = [pc EXCEPT ![t] = "idle"]
            /\ ctx' = [ctx EXCEPT ![t] = "none"]
            /\ UNCHANGED failed
       ELSE /\ LoopHead(t, GLOBAL_COUNTER)
            /\ UNCHANGED <<GLOBAL_COUNTER, initialized, NEXT_LOCAL_SNOWFLAKE,
                           issued, acquired>>
    /\ UNCHANGED <<raced, late, scripted>>
Load(t) ==
    /\ pc[t] = "load"
    /\ LoopHead(t, GLOBAL_COUNTER)
    /\ UNCHANGED <<GLOBAL_COUNTER, initialized, NEXT_LOCAL_SNOWFLAKE,
                   issued, acquired, raced, late, scripted>>

\* next_global() returns v to its caller in new(): the initialiser fills the
\* slot and the closure runs on it; the rollover branch replaces the slot and
\* the closure returns the Snowflake it read before.
Return(t, v) ==
    /\ acquired' = [acquired EXCEPT ![t] = Append(@, v)]
    /\ prev' = [prev EXCEPT ![t] = 0]
    /\ IF ctx[t] = "init"
       THEN /\ initialized' = [initialized EXCEPT ![t] = TRUE]
            /\ Closure(t, InitSnowflake(v))
       ELSE /\ initialized' = initialized
            /\ NEXT_LOCAL_SNOWFLAKE' =
                   [NEXT_LOCAL_SNOWFLAKE EXCEPT ![t] = RolloverSnowflake(v)]
            /\ issued' = [issued EXCEPT ![t] = Append(@, NEXT_LOCAL_SNOWFLAKE[t])]
            /\ pc' = [pc EXCEPT ![t] = "idle"]
            /\ ctx' = [ctx EXCEPT ![t] = "none"]

\* let old_value = GLOBAL_COUNTER.compare_and_swap(prev, prev + 1, Relaxed);
\* if old_value == prev { return prev; } else { prev = old_value; } and,
\* on the else branch, the loop head again
Cas(t) ==
    /\ pc[t] = "cas"
    /\ LET old_value == GLOBAL_COUNTER IN
       /\ GLOBAL_COUNTER' = CasStore(GLOBAL_COUNTER, prev[t], SuccPrev(prev[t]))
       /\ IF CasWon(old_value, prev[t])
          THEN /\ Return(t, prev[t])
               /\ UNCHANGED <<failed, raced>>
          ELSE /\ RetryHead(t, old_value)
               /\ raced' = TRUE
               /\ UNCHANGED <<initialized, NEXT_LOCAL_SNOWFLAKE, issued, acquired>>
    /\ UNCHANGED <<late, scripted>>

\* The thread ends: its thread-local slot is dropped with it.
Terminate(t) ==
    /\ pc[t] = "idle"
    /\ pc' = [pc EXCEPT ![t] = "dead"]
    /\ initialized' = [initialized EXCEPT ![t] = FALSE]
    /\ NEXT_LOCAL_SNOWFLAKE' = [NEXT_LOCAL_SNOWFLAKE EXCEPT ![t] = NoSnowflake]
    /\ UNCHANGED <<GLOBAL_COUNTER, ctx, prev, issued, acquired, failed,
                   raced, late, scripted>>

\* impl Default for Snowflake: fn default() -> Snowflake { Snowflake::new() }
DefaultConstant(t) ==
    /\ pc[t] = "idle"
    /\ failed[t] < MaxFail
    /\ issued' = [issued EXCEPT ![t] = Append(@, Snowflake(0, 0))]
    /\ UNCHANGED <<GLOBAL_COUNTER, initialized, NEXT_LOCAL_SNOWFLAKE, pc, ctx, prev,
                   acquired, failed, raced, late, scripted>>
Default(t) == New(t)

\* one step of the program whose only entry point is new(), on coreVars
Step ==
    \E t \in Threads :
        \/ New(t)
        \/ Load(t)
        \/ Cas(t)
        \/ Terminate(t)

Next ==
    \E t \in Threads :
        \/ New(t) /\ UNCHANGED aux
        \/ Load(t) /\ UNCHANGED aux
        \/ Cas(t) /\ UNCHANGED aux
        \/ Terminate(t) /\ UNCHANGED aux

Spec == Init /\ [][Next]_vars

\* ------------------------------------------------- reading the histories

\* the prefixes thread t has been given by next_global()
Held(t) == {acquired[t][i] : i \in 1..Len(acquired[t])}
\* thread t takes a step
Steps(t) ==
    \/ pc'[t] # pc[t] \/ prev'[t] # prev[t]
    \/ issued'[t] # issued[t] \/ failed'[t] # failed[t]
\* a call of new() on thread t returns in this step
Returns(t) == issued'[t] # issued[t]
\* a call of new() on thread t panics in this step
Panics(t) == failed'[t] # failed[t]
\* thread t is in a call of new() that has to acquire a prefix
MustAcquire(t) ==
    /\ pc[t] \in {"load", "cas"}
    /\ \/ ctx[t] = "init" /\ ~initialized[t]
       \/ ctx[t] = "roll" /\ initialized[t] /\ NEXT_LOCAL_SNOWFLAKE[t].offset = U64_MAX
\* (prefix, offset) order
SnowflakeLt(a, b) ==
    a.prefix < b.prefix \/ (a.prefix = b.prefix /\ a.offset < b.offset)

\* ----------------------------------------------------------------- C1
\* C1: no two calls of new() that return, on one thread or on two, around a
\* rollover or not, return Snowflakes with the same (prefix, offset).
C1_Distinctness ==
    \A t \in Threads : \A u \in Threads :
        \A i \in 1..Len(issued[t]) : \A j \in 1..Len(issued[u]) :
            (t # u \/ i # j) => ~SnowflakeEq(issued[t][i], issued[u][j])

\* one thread has rolled over and returned from its second block while
\* another thread has Snowflakes of its own
C1_Witness ==
    \E t \in Threads : \E u \in Threads \ {t} :
        /\ Len(issued[t]) >= U64_MAX + 2
        /\ Len(issued[u]) >= 2

\* ----------------------------------------------------------------- C2
\* C2: an acquisition that reaches the check of next_global() with the
\* counter at the maximum panics and returns no prefix; once the counter is at
\* the maximum it stays there (it never wraps to 0) and no acquisition
\* succeeds any more; once a call has panicked the counter is at the maximum,
\* so every later acquisition panics as well.
C2_ExhaustionStep ==
    /\ GLOBAL_COUNTER' >= GLOBAL_COUNTER
    /\ (GLOBAL_COUNTER = USIZE_MAX =>
            GLOBAL_COUNTER' = USIZE_MAX /\ acquired' = acquired)
    /\ ((\E t \in Threads : failed[t] > 0) =>
            GLOBAL_COUNTER = USIZE_MAX /\ GLOBAL_COUNTER' = USIZE_MAX)
    /\ \A t \in Threads :
         (pc[t] \in {"load", "cas"} /\ GLOBAL_COUNTER = USIZE_MAX /\ Steps(t)) =>
            /\ failed'[t] = failed[t] + 1
            /\ pc'[t] = "idle"
            /\ acquired'[t] = acquired[t]
C2_ExhaustionFatal == [][C2_ExhaustionStep]_vars

\* two threads have each had an acquisition panic on the exhausted counter
C2_Witness ==
    /\ GLOBAL_COUNTER = USIZE_MAX
    /\ \E t \in Threads : \E u \in Threads \ {t} : failed[t] > 0 /\ failed[u] > 0

\* ----------------------------------------------------------------- C3
\* C3: under every interleaving the values next_global() has returned are
\* pairwise distinct, and each is the value the counter held immediately
\* before the returning call's own increment by one.
C3_AcquiredDistinct ==
    \A t \in Threads : \A u \in Threads :
        \A i \in 1..Len(acquired[t]) : \A j \in 1..Len(acquired[u]) :
            (t # u \/ i # j) => acquired[t][i] # acquired[u][j]
C3_ReturnStep ==
    \A t \in Threads :
        acquired'[t] # acquired[t] =>
            /\ acquired'[t] = Append(acquired[t], GLOBAL_COUNTER)
            /\ GLOBAL_COUNTER' = GLOBAL_COUNTER + 1
            /\ pc[t] = "cas"
C3_NextGlobalDistinct == [](C3_AcquiredDistinct) /\ [][C3_ReturnStep]_vars

\* a compare-and-swap has failed against another thread's, and two threads
\* have returned from next_global()
C3_Witness ==
    /\ raced
    /\ \E t \in Threads : \E u \in Threads \ {t} :
        Len(acquired[t]) >= 1 /\ Len(acquired[u]) >= 1

\* ----------------------------------------------------------------- C4
\* C4: new() panics exactly when the calling thread has to acquire a prefix
\* (first request, or a request at the offset boundary) and the counter is at
\* its maximum: a panic happens only in such a call with the counter at the
\* maximum, such a call whose check sees the maximum does panic and never
\* returns, and a call on an initialised thread below the boundary returns.
C4_FailStep ==
    \A t \in Threads :
        /\ Panics(t) =>
             (MustAcquire(t) /\ GLOBAL_COUNTER = USIZE_MAX /\ ~Returns(t))
        /\ (MustAcquire(t) /\ GLOBAL_COUNTER = USIZE_MAX /\ Steps(t)) => Panics(t)
        /\ (pc[t] = "idle" /\ initialized[t] /\ Steps(t) /\ pc'[t] # "dead"
                /\ NEXT_LOCAL_SNOWFLAKE[t].offset < U64_MAX)
             => (Returns(t) /\ ~Panics(t))
C4_FailsIffExhausted == [][C4_FailStep]_vars

\* one thread has panicked on its first request and another at a rollover
C4_Witness ==
    \E t \in Threads : \E u \in Threads \ {t} :
        /\ failed[t] > 0 /\ Len(acquired[t]) = 0 /\ ~initialized[t]
        /\ failed[u] > 0 /\ Len(issued[u]) > 0

\* ----------------------------------------------------------------- C5
\* C5: a call made with the slot at (P, MAX_OFFSET) returns (P, MAX_OFFSET);
\* the thread's following call returns (P', 0) with P' # P, where P' was never
\* given to another thread, and the call after that returns (P', 1).
C5_History ==
    \A t \in Threads : \A i \in 1..Len(issued[t]) :
        issued[t][i].offset = U64_MAX =>
            /\ i + 1 <= Len(issued[t]) =>
                 /\ issued[t][i + 1].offset = 0
                 /\ issued[t][i + 1].prefix # issued[t][i].prefix
                 /\ \A u \in Threads \ {t} : issued[t][i + 1].prefix \notin Held(u)
            /\ i + 2 <= Len(issued[t]) =>
                 issued[t][i + 2] = Snowflake(issued[t][i + 1].prefix, 1)
C5_BoundaryStep ==
    \A t \in Threads :
        (initialized[t] /\ NEXT_LOCAL_SNOWFLAKE[t].offset = U64_MAX /\ Returns(t)) =>
            /\ issued'[t] = Append(issued[t], NEXT_LOCAL_SNOWFLAKE[t])
            /\ NEXT_LOCAL_SNOWFLAKE'[t].offset = 0
            /\ NEXT_LOCAL_SNOWFLAKE'[t].prefix # NEXT_LOCAL_SNOWFLAKE[t].prefix
C5_BoundaryRollover == [](C5_History) /\ [][C5_BoundaryStep]_vars

\* a thread has returned (P, MAX_OFFSET), (P', 0) and (P', 1) in a row while
\* another thread holds a prefix too
C5_Witness ==
    \E t \in Threads : \E u \in Threads \ {t} :
        /\ Len(issued[t]) >= U64_MAX + 3
        /\ issued[t][U64_MAX + 1].offset = U64_MAX
        /\ Len(acquired[u]) >= 1

\* ----------------------------------------------------------------- C6
\* The scenario of C6: the calls run one at a time, thread 1 calls first,
\* thread 2 makes its first and only call after thread 1's first call and
\* before thread 1's second, no other thread ever calls.  The calls thread 1
\* makes to bring its offset to the maximum stand for the forcing of it.
C6_Scenario == scripted

\* C6 as the spec states it: the call thread 1 makes with its offset at the
\* maximum yields (2, 0).
C6_Original ==
    C6_Scenario =>
        /\ Len(issued[1]) >= 1 => issued[1][1] = Snowflake(0, 0)
        /\ Len(issued[2]) >= 1 => issued[2][1] = Snowflake(1, 0)
        /\ Len(issued[1]) >= 2 => issued[1][2] = Snowflake(0, 1)
        /\ Len(issued[1]) >= U64_MAX + 1 => issued[1][U64_MAX + 1] = Snowflake(2, 0)

\* C6 (amended): thread 1's first call returns (0, 0), thread 2's first call
\* returns (1, 0), thread 1's second call returns (0, 1); the call thread 1
\* makes with its offset at the maximum returns (0, MAX_OFFSET), and the call
\* after that one returns (2, 0).
C6_Amended ==
    C6_Scenario =>
        /\ Len(issued[1]) >= 1 => issued[1][1] = Snowflake(0, 0)
        /\ Len(issued[2]) >= 1 => issued[2][1] = Snowflake(1, 0)
        /\ Len(issued[1]) >= 2 => issued[1][2] = Snowflake(0, 1)
        /\ Len(issued[1]) >= U64_MAX + 1 =>
             issued[1][U64_MAX + 1] = Snowflake(0, U64_MAX)
        /\ Len(issued[1]) >= U64_MAX + 2 => issued[1][U64_MAX + 2] = Snowflake(2, 0)

\* the scenario has run to its end
C6_Witness ==
    /\ C6_Scenario
    /\ Len(issued[1]) = U64_MAX + 2
    /\ Len(issued[2]) = 1

\* ----------------------------------------------------------------- C7
\* C7: calls of one thread that do not cross an offset boundary return, in
\* order, one prefix with the offsets O, O+1, ..., O+N-1, where O is the
\* offset the slot held before the first of them, whatever other threads do
\* in between: none skipped, none repeated.
C7_Run(t, i, j) == \A k \in i..(j - 1) : issued[t][k].offset # U64_MAX
C7_History ==
    \A t \in Threads : \A i \in 1..Len(issued[t]) : \A j \in i..Len(issued[t]) :
        C7_Run(t, i, j) =>
            /\ issued[t][j].prefix = issued[t][i].prefix
            /\ issued[t][j].offset = issued[t][i].offset + (j - i)
C7_Slot ==
    \A t \in Threads :
        (pc[t] = "idle" /\ initialized[t] /\ Len(issued[t]) > 0
            /\ issued[t][Len(issued[t])].offset # U64_MAX) =>
            NEXT_LOCAL_SNOWFLAKE[t] =
                Snowflake(issued[t][Len(issued[t])].prefix,
                          issued[t][Len(issued[t])].offset + 1)
C7_MonotoneInBlock == C7_History /\ C7_Slot

\* a thread has returned a whole block 0..MAX_OFFSET of one prefix while
\* another thread acquired a prefix and returned Snowflakes in between
C7_Witness ==
    \E t \in Threads : \E u \in Threads \ {t} :
        /\ Len(issued[t]) >= U64_MAX + 1
        /\ issued[t][U64_MAX + 1].offset = U64_MAX
        /\ Len(acquired[t]) >= 2 /\ Len(issued[u]) >= 2
        /\ acquired[t][1] < issued[u][1].prefix
        /\ issued[u][1].prefix < acquired[t][2]

\* ----------------------------------------------------------------- C8
\* C8: the first Snowflake of every thread has offset 0 and the first
\* prefixes of the threads are pairwise distinct, under every interleaving of
\* the first requests; the first request makes exactly one acquisition.
C8_FirstIdentifiers ==
    /\ \A t \in Threads :
         Len(issued[t]) >= 1 =>
            /\ issued[t][1].offset = 0
            /\ issued[t][1].prefix = acquired[t][1]
            /\ (Len(issued[t]) = 1 /\ pc[t] \in {"idle", "dead"} /\ failed[t] = 0)
                  => Len(acquired[t]) = 1
    /\ \A t \in Threads : \A u \in Threads \ {t} :
         (Len(issued[t]) >= 1 /\ Len(issued[u]) >= 1) =>
            issued[t][1].prefix # issued[u][1].prefix

\* every thread has requested exactly one Snowflake, all of them at once
C8_Witness ==
    /\ \A t \in Threads : Len(issued[t]) = 1 /\ pc[t] = "idle"
    /\ raced

\* ----------------------------------------------------------------- C9
\* C9: of two Snowflakes returned to one thread the later one is the greater
\* in (prefix, offset) order, and the prefixes one thread acquires are
\* strictly increasing, across rollovers and other threads' acquisitions.
C9_ThreadIncreasing ==
    \A t \in Threads :
        /\ \A i \in 1..Len(issued[t]) : \A j \in (i + 1)..Len(issued[t]) :
              SnowflakeLt(issued[t][i], issued[t][j])
        /\ \A i \in 1..Len(acquired[t]) : \A j \in (i + 1)..Len(acquired[t]) :
              acquired[t][i] < acquired[t][j]

\* a thread has rolled over with a prefix of another thread in between its
\* two and has returned Snowflakes from both blocks
C9_Witness ==
    \E t \in Threads : \E u \in Threads \ {t} :
        /\ Len(acquired[t]) >= 2 /\ Len(acquired[u]) >= 1
        /\ acquired[t][1] < acquired[u][1] /\ acquired[u][1] < acquired[t][2]
        /\ Len(issued[t]) >= U64_MAX + 2

\* ---------------------------------------------------------------- C10
\* C10: no Snowflake returned to one thread carries a prefix that a different
\* thread was ever given; in particular the prefix of a thread that ended
\* with unissued offsets is never seen by a thread that exists or starts later.
C10_Forfeited ==
    \A t \in Threads : \A u \in Threads \ {t} :
        /\ \A i \in 1..Len(issued[u]) : issued[u][i].prefix \notin Held(t)
        /\ initialized[u] => NEXT_LOCAL_SNOWFLAKE[u].prefix \notin Held(t)

\* a thread ended with offsets of its block unissued, and a thread that made
\* its first request after that has been handed Snowflakes
C10_Witness ==
    \E t \in Threads : \E u \in Threads \ {t} :
        /\ pc[t] = "dead"
        /\ Len(acquired[t]) >= 1
        /\ Len(issued[t]) \in 1..U64_MAX
        /\ Dead = {t} /\ late[u]
        /\ Len(issued[u]) >= U64_MAX + 2

\* ------------------------------------------------- SpecDefault (C11)
\* The program called through both entry points.  via remembers through
\* which one a thread entered next_global(), nDefault counts the calls of
\* default().  The threads live on: the end of a thread is no call.

\* thread t stays inside next_global() after this step
StaysInside(t) == pc'[t] \in {"load", "cas"}

NewD(t) ==
    /\ New(t)
    /\ via' = [via EXCEPT ![t] = IF StaysInside(t) THEN "new" ELSE "none"]
    /\ UNCHANGED <<ops, nDefault>>

DefaultD(t) ==
    /\ nDefault < MaxDefault
    /\ Default(t)
    /\ nDefault' = nDefault + 1
    /\ via' = [via EXCEPT ![t] = IF StaysInside(t) THEN "default" ELSE "none"]
    /\ UNCHANGED ops

LoadD(t) ==
    /\ Load(t)
    /\ via' = [via EXCEPT ![t] = IF StaysInside(t) THEN @ ELSE "none"]
    /\ UNCHANGED <<ops, nDefault>>

CasD(t) ==
    /\ Cas(t)
    /\ via' = [via EXCEPT ![t] = IF StaysInside(t) THEN @ ELSE "none"]
    /\ UNCHANGED <<ops, nDefault>>

NextDefault ==
    \E t \in Threads :
        \/ NewD(t)
        \/ DefaultD(t)
        \/ LoadD(t)
        \/ CasD(t)

SpecDefault == Init /\ [][NextDefault]_vars

\* ---------------------------------------------------------------- C11
\* a call of default() on thread t returns in this step
C11_DefaultReturns(t) ==
    /\ issued'[t] # issued[t]
    /\ nDefault' # nDefault \/ via[t] = "default"
\* C11: default() behaves as new(): every step of a run that mixes calls of
\* default() and of new() is a step of the program called through new()
\* alone (same Snowflake returned, same slot, same counter); what default()
\* returns is the content of the caller's slot and no constant: it differs
\* from every Snowflake returned before, by default() or by new().
C11_DefaultStep ==
    \A t \in Threads :
        C11_DefaultReturns(t) =>
            /\ Len(issued'[t]) = Len(issued[t]) + 1
            /\ initialized[t] => issued'[t][Len(issued'[t])] = NEXT_LOCAL_SNOWFLAKE[t]
            /\ \A u \in Threads : \A i \in 1..Len(issued[u]) :
                  ~SnowflakeEq(issued[u][i], issued'[t][Len(issued'[t])])
C11_DefaultIsNew == [][Step]_coreVars /\ [][C11_DefaultStep]_vars

\* default() has been called MaxDefault times among calls of new(): one of
\* these calls is rolling its thread over inside next_global(), the others
\* have returned
C11_Witness ==
    /\ nDefault = MaxDefault
    /\ \A t \in Threads : failed[t] = 0
    /\ \E t \in Threads : \E u \in Threads \ {t} :
        /\ via[t] = "default" /\ pc[t] = "cas" /\ ctx[t] = "roll"
        /\ pc[u] = "idle" /\ Len(issued[u]) >= 1

\* ------------------------------------------------- SpecCounted (C12, C13)
\* The program with its accesses to GLOBAL_COUNTER counted: ops[t] is the
\* number of loads and compare-and-swaps the latest call of new() on thread t
\* has made.  The threads live on.

NewCounted(t) ==
    /\ New(t)
    /\ ops' = [ops EXCEPT ![t] = 0]
    /\ UNCHANGED <<via, nDefault>>

LoadCounted(t) ==
    /\ Load(t)
    /\ ops' = [ops EXCEPT ![t] = @ + 1]
    /\ UNCHANGED <<via, nDefault>>

CasCounted(t) ==
    /\ Cas(t)
    /\ ops' = [ops EXCEPT ![t] = @ + 1]
    /\ UNCHANGED <<via, nDefault>>

NextCounted ==
    \E t \in Threads :
        \/ NewCounted(t)
        \/ LoadCounted(t)
        \/ CasCounted(t)

SpecCounted == Init /\ [][NextCounted]_vars

\* ---------------------------------------------------------------- C12
\* C12: a compare-and-swap that fails stores nothing and hands its thread the
\* counter's value to retry with; the retry passes the check again, so a
\* thread that saw the counter below the maximum and lost the race for the
\* last prefix panics on the retry.  No call returns the maximum or a value
\* another thread was given, no compare-and-swap is made on the maximum, and
\* the counter never takes a wrapped value.
C12_RetryStep ==
    /\ GLOBAL_COUNTER' # GLOBAL_COUNTER =>
          (GLOBAL_COUNTER < USIZE_MAX /\ GLOBAL_COUNTER' = GLOBAL_COUNTER + 1)
    /\ \A t \in Threads :
          (pc[t] = "cas" /\ prev[t] # GLOBAL_COUNTER /\ Steps(t)) =>
              /\ GLOBAL_COUNTER' = GLOBAL_COUNTER
              /\ acquired'[t] = acquired[t] /\ ~Returns(t)
              /\ IF GLOBAL_COUNTER = USIZE_MAX
                 THEN Panics(t) /\ pc'[t] = "idle"
                 ELSE ~Panics(t) /\ pc'[t] = "cas" /\ prev'[t] = GLOBAL_COUNTER
C12_Never ==
    \A t \in Threads :
        /\ pc[t] = "cas" => prev[t] < USIZE_MAX
        /\ \A i \in 1..Len(acquired[t]) :
              /\ acquired[t][i] < USIZE_MAX
              /\ \A u \in Threads \ {t} : acquired[t][i] \notin Held(u)
C12_RetryRechecks == [](C12_Never) /\ [][C12_RetryStep]_vars

\* the one call of thread t that panicked did so after a load and at least
\* one failed compare-and-swap
C12_Witness ==
    \E t \in Threads :
        failed[t] = 1 /\ pc[t] = "idle" /\ ops[t] >= 2

\* ---------------------------------------------------------------- C13
\* C13, as stated: a call of new() made at the maximum offset makes exactly
\* one atomic access to the global counter.
C13_Original ==
    [][\A t \in Threads :
          ((Returns(t) \/ Panics(t)) /\ ctx[t] = "roll") => ops'[t] = 1]_vars

\* C13, amended: a call of new() made at the maximum offset makes exactly one
\* call of next_global(), which is one load followed by compare-and-swaps.
\* The call that returns has made at least two accesses (exactly two when no
\* compare-and-swap has failed), of which only the last, the compare-and-swap
\* that succeeded, changed the counter, by one; the call that panics has made
\* at least one access and none of them changed the counter.
C13_CallStep ==
    \A t \in Threads :
        /\ (Returns(t) /\ ctx[t] = "roll") =>
              /\ ops'[t] >= 2
              /\ ~raced' => ops'[t] = 2
              /\ pc[t] = "cas"
              /\ GLOBAL_COUNTER' = GLOBAL_COUNTER + 1
              /\ Len(acquired'[t]) = Len(acquired[t]) + 1
        /\ (Panics(t) /\ ctx[t] = "roll") =>
              /\ ops'[t] >= 1
              /\ GLOBAL_COUNTER' = GLOBAL_COUNTER
              /\ acquired'[t] = acquired[t]
        /\ ops'[t] = ops[t] + 1 =>
              (GLOBAL_COUNTER' # GLOBAL_COUNTER <=> Returns(t))
C13_LoadFirst ==
    \A t \in Threads :
        /\ pc[t] = "load" => ops[t] = 0
        /\ pc[t] = "cas" => ops[t] >= 1
C13_Amended == [](C13_LoadFirst) /\ [][C13_CallStep]_vars

\* the second acquisition of thread t, a rollover, returned after a load, a
\* failed compare-and-swap and a successful one
C13_Witness ==
    \E t \in Threads :
        /\ pc[t] = "idle" /\ failed[t] = 0
        /\ Len(acquired[t]) >= 2
        /\ ops[t] >= 3

\* ---------------------------------------------------------------- C14
\* the number of offsets in one block: 0 ..= u64::MAX
BlockSize == U64_MAX + 1

\* thread t is between calls (or has ended) and n of its calls have returned
Completed(t, n) == pc[t] \notin {"load", "cas"} /\ Len(issued[t]) = n

\* C14, as stated: after n >= 1 calls of new() have returned on a thread, the
\* thread has acquired at most ceil(n / B) prefixes.
C14_Original ==
    \A t \in Threads : \A n \in 1..(USIZE_MAX * BlockSize) :
        Completed(t, n) =>
            Len(acquired[t]) <= (n + BlockSize - 1) \div BlockSize

\* C14, amended: after n >= 1 calls of new() have returned on a thread, the
\* thread has acquired exactly floor(n / B) + 1 prefixes, the call that
\* returns the last identifier of a block having acquired the next block
\* already; at no time has it acquired more than that.
C14_Amended ==
    \A t \in Threads :
        /\ Len(acquired[t]) <= (Len(issued[t]) \div BlockSize) + 1
        /\ \A n \in 1..(USIZE_MAX * BlockSize) :
              Completed(t, n) => Len(acquired[t]) = (n \div BlockSize) + 1

\* exactly one block's worth of calls has returned on thread t, and the
\* thread has acquired two prefixes
C14_Witness ==
    \E t \in Threads :
        Completed(t, BlockSize) /\ Len(acquired[t]) = 2

\* ------------------------------------------- SpecProgress, SpecFair (C15, C16)
\* thread t takes its next step inside next_global()
Acquire(t) == (Load(t) \/ Cas(t)) /\ UNCHANGED aux

\* The threads live on, calling new() whenever they like.
NextLive ==
    \E t \in Threads :
        \/ New(t) /\ UNCHANGED aux
        \/ Acquire(t)

\* As long as some threads are inside next_global(), threads keep taking
\* steps there: which of them steps is up to the scheduler.
SpecProgress ==
    Init /\ [][NextLive]_vars /\ WF_vars(\E t \in Threads : Acquire(t))

\* The scheduler is weakly fair to every thread.
SpecFair ==
    Init /\ [][NextLive]_vars /\ \A t \in Threads : WF_vars(Acquire(t))

\* ---------------------------------------------------------------- C15
\* C15: a thread about to compare-and-swap holds a value the counter had; if
\* the counter has moved on since (so that the compare-and-swap will fail),
\* every value from the held one up to the counter was acquired by a
\* compare-and-swap of another thread.  Hence while some thread is inside
\* next_global() and the counter is below the maximum, the counter advances:
\* some acquisition completes.
C15_FailOnlyIfBeaten ==
    \A t \in Threads :
        pc[t] = "cas" =>
            /\ prev[t] <= GLOBAL_COUNTER
            /\ \A v \in prev[t]..(GLOBAL_COUNTER - 1) :
                  \E u \in Threads \ {t} : v \in Held(u)
C15_FailStep ==
    \A t \in Threads :
        (pc[t] = "cas" /\ Steps(t) /\ ~Returns(t)) =>
            /\ prev[t] < GLOBAL_COUNTER
            /\ \E u \in Threads \ {t} : prev[t] \in Held(u)
C15_Progress ==
    \A n \in 0..(USIZE_MAX - 1) :
        (InNextGlobal # {} /\ GLOBAL_COUNTER = n) ~> (GLOBAL_COUNTER > n)
C15_LockFree ==
    /\ [](C15_FailOnlyIfBeaten)
    /\ [][C15_FailStep]_vars
    /\ C15_Progress

\* thread t has lost a race and is about to lose the next one: it has
\* acquired nothing, a compare-and-swap has failed, and the other threads
\* have acquired the value it holds
C15_Witness ==
    \E t \in Threads :
        /\ raced /\ Len(acquired[t]) = 0
        /\ pc[t] = "cas" /\ 0 < prev[t] /\ prev[t] < GLOBAL_COUNTER
        /\ GLOBAL_COUNTER < USIZE_MAX

\* ---------------------------------------------------------------- C16
\* C16: under weak fairness to every thread, a thread that is inside
\* next_global() leaves it, its call of new() returning or panicking; and
\* each compare-and-swap that fails finds the counter above the value the
\* thread held, which is what bounds the retries.
C16_RetryStep ==
    \A t \in Threads :
        (pc[t] = "cas" /\ pc'[t] = "cas" /\ Steps(t)) =>
            /\ prev[t] < prev'[t]
            /\ prev'[t] = GLOBAL_COUNTER /\ prev'[t] < USIZE_MAX
C16_Terminates ==
    /\ [][C16_RetryStep]_vars
    /\ \A t \in Threads : (pc[t] \in {"load", "cas"}) ~> (pc[t] = "idle")

\* the first call of new() on thread t has returned the latest prefix after
\* losing a race: a compare-and-swap has failed, and it was not one of
\* another thread, whose calls have all returned with earlier prefixes
C16_Witness ==
    \E t \in Threads :
        /\ raced /\ pc[t] = "idle" /\ failed[t] = 0
        /\ Len(acquired[t]) = 1 /\ acquired[t][1] >= 1
        /\ \A u \in Threads \ {t} :
              /\ pc[u] = "idle" /\ failed[u] = 0
              /\ \A w \in Held(u) : w < acquired[t][1]

\* ---------------------------------------------------------------- C17
\* the block of thread t: its slot and whether the slot is filled
Block(t) == <<initialized[t], NEXT_LOCAL_SNOWFLAKE[t]>>
\* a call of new() on thread t takes the fast path in this step
FastPath(t) ==
    /\ pc[t] = "idle" /\ initialized[t]
    /\ NEXT_LOCAL_SNOWFLAKE[t].offset < U64_MAX
    /\ Returns(t)

\* C17: a call of new() on an initialized thread whose offset is below the
\* maximum is one step that returns the slot's content, adds one to the
\* slot's offset and leaves the slot's prefix, the global counter, the
\* thread's acquisitions and every other thread's block as they were; and in
\* every step of the program the only block that changes, if any, is that of
\* the one thread taking the step.
C17_FrameStep ==
    \A t \in Threads :
        /\ FastPath(t) =>
              /\ issued'[t] = Append(issued[t], NEXT_LOCAL_SNOWFLAKE[t])
              /\ NEXT_LOCAL_SNOWFLAKE'[t].prefix = NEXT_LOCAL_SNOWFLAKE[t].prefix
              /\ NEXT_LOCAL_SNOWFLAKE'[t].offset = NEXT_LOCAL_SNOWFLAKE[t].offset + 1
              /\ initialized'[t] /\ pc'[t] = "idle"
              /\ GLOBAL_COUNTER' = GLOBAL_COUNTER
              /\ acquired' = acquired
              /\ \A u \in Threads \ {t} : Block(u)' = Block(u)
        /\ Block(t)' # Block(t) =>
              /\ Steps(t)
              /\ \A u \in Threads \ {t} : ~Steps(u) /\ Block(u)' = Block(u)
C17_FastPathFrame == [][C17_FrameStep]_vars

\* thread t has taken the fast path since it filled its slot, and another
\* thread has a block of its own
C17_Witness ==
    \E t \in Threads : \E u \in Threads \ {t} :
        /\ initialized[t] /\ initialized[u]
        /\ Len(acquired[t]) = 1 /\ NEXT_LOCAL_SNOWFLAKE[t].offset = U64_MAX
        /\ pc[t] = "idle"
        /\ NEXT_LOCAL_SNOWFLAKE[u].prefix # NEXT_LOCAL_SNOWFLAKE[t].prefix

\* ---------------------------------------------------------------- C18
\* the prefixes next_global() has returned so far, to any thread
Handed == UNION {Held(t) : t \in Threads}
\* the number of times next_global() has returned
RECURSIVE Acquisitions(_)
Acquisitions(S) ==
    IF S = {} THEN 0
    ELSE LET t == CHOOSE x \in S : TRUE
         IN  Len(acquired[t]) + Acquisitions(S \ {t})

\* C18: the prefixes handed out so far are exactly 0 .. counter - 1, each
\* handed out once, so the counter is the number of acquisitions and the
\* maximum is never handed out; the counter is 0 before the first
\* acquisition, and it changes only by +1, in the step in which a
\* compare-and-swap of a thread holding the counter's value succeeds.
C18_Accounting ==
    /\ GLOBAL_COUNTER \in 0..USIZE_MAX
    /\ Handed = 0..(GLOBAL_COUNTER - 1)
    /\ Acquisitions(Threads) = GLOBAL_COUNTER
    /\ USIZE_MAX \notin Handed
C18_CounterStep ==
    /\ GLOBAL_COUNTER' >= GLOBAL_COUNTER
    /\ GLOBAL_COUNTER' # GLOBAL_COUNTER =>
          /\ GLOBAL_COUNTER' = GLOBAL_COUNTER + 1
          /\ \E t \in Threads :
                /\ pc[t] = "cas" /\ prev[t] = GLOBAL_COUNTER
                /\ acquired'[t] = Append(acquired[t], GLOBAL_COUNTER)
    /\ \A t \in Threads :
          acquired'[t] # acquired[t] => GLOBAL_COUNTER' = GLOBAL_COUNTER + 1
C18_CounterAccounting == [](C18_Accounting) /\ [][C18_CounterStep]_vars

\* every prefix below the maximum has been handed out, and no thread got
\* them all
C18_Witness ==
    /\ GLOBAL_COUNTER = USIZE_MAX
    /\ \A t \in Threads : Len(acquired[t]) >= 1

\* ---------------------------------------------------------------- C19
\* C19: no step of a call of new() other than the one in which it returns
\* changes the caller's block, the identifiers returned or the counter, so a
\* call that panics leaves them as they were when it was made; a thread that
\* has had a call panic is uninitialized or at the maximum offset, with that
\* identifier never returned, and the counter is at the maximum, so each
\* later call on it panics too and returns nothing.
C19_FailStep ==
    \A t \in Threads :
        /\ ((pc'[t] \in {"load", "cas"} \/ Panics(t)) /\ Steps(t)) =>
              /\ Block(t)' = Block(t)
              /\ issued' = issued /\ acquired' = acquired
              /\ GLOBAL_COUNTER' = GLOBAL_COUNTER
        /\ Panics(t) =>
              /\ pc'[t] = "idle"
              /\ \A u \in Threads : Block(u)' = Block(u)
        /\ failed[t] > 0 =>
              /\ ~Returns(t) /\ acquired'[t] = acquired[t]
              /\ pc[t] \in {"load", "cas"} /\ Steps(t) => Panics(t)
C19_AfterFailure ==
    \A t \in Threads :
        failed[t] > 0 =>
            /\ GLOBAL_COUNTER = USIZE_MAX
            /\ pc[t] # "cas"
            /\ pc[t] # "dead" =>
                  \/ ~initialized[t]
                  \/ /\ NEXT_LOCAL_SNOWFLAKE[t].offset = U64_MAX
                     /\ \A i \in 1..Len(issued[t]) :
                           ~SnowflakeEq(issued[t][i], NEXT_LOCAL_SNOWFLAKE[t])
C19_FailedNewChangesNothing == [](C19_AfterFailure) /\ [][C19_FailStep]_vars

\* two calls in a row have panicked on a thread at the maximum offset, and a
\* call has panicked on a thread that never filled its slot
C19_Witness ==
    \E t \in Threads : \E u \in Threads \ {t} :
        /\ failed[t] >= 2 /\ pc[t] = "idle" /\ initialized[t]
        /\ failed[u] >= 1 /\ pc[u] = "idle" /\ ~initialized[u]
        /\ Len(acquired[u]) = 0

\* ---------------------------------------------------------------- C20
\* C20: whenever the program is about to compute prev + 1 or offset + 1 the
\* result fits: a thread at its compare-and-swap holds a value below the
\* maximum and a slot about to take the fast path an offset below the
\* maximum.  So the counter only ever steps to its successor, and a slot that
\* keeps its prefix only ever steps to the next offset.
C20_Fits ==
    \A t \in Threads :
        /\ pc[t] = "cas" =>
              prev[t] < USIZE_MAX /\ SuccPrev(prev[t]) = prev[t] + 1
        /\ (initialized[t] /\ ~AtBoundary(NEXT_LOCAL_SNOWFLAKE[t])) =>
              /\ NEXT_LOCAL_SNOWFLAKE[t].offset < U64_MAX
              /\ BumpOffset(NEXT_LOCAL_SNOWFLAKE[t]).offset =
                     NEXT_LOCAL_SNOWFLAKE[t].offset + 1
C20_StoreStep ==
    /\ GLOBAL_COUNTER' # GLOBAL_COUNTER =>
          GLOBAL_COUNTER < USIZE_MAX /\ GLOBAL_COUNTER' > GLOBAL_COUNTER
    /\ \A t \in Threads :
          (/\ initialized[t] /\ initialized'[t]
           /\ NEXT_LOCAL_SNOWFLAKE'[t] # NEXT_LOCAL_SNOWFLAKE[t]
           /\ NEXT_LOCAL_SNOWFLAKE'[t].prefix = NEXT_LOCAL_SNOWFLAKE[t].prefix) =>
              /\ NEXT_LOCAL_SNOWFLAKE[t].offset < U64_MAX
              /\ NEXT_LOCAL_SNOWFLAKE'[t].offset = NEXT_LOCAL_SNOWFLAKE[t].offset + 1
C20_NoOverflow == [](C20_Fits) /\ [][C20_StoreStep]_vars

\* the counter and an offset have both been stepped up to their maximum
C20_Witness ==
    /\ GLOBAL_COUNTER = USIZE_MAX
    /\ \E t \in Threads :
          /\ initialized[t] /\ NEXT_LOCAL_SNOWFLAKE[t].offset = U64_MAX
          /\ NEXT_LOCAL_SNOWFLAKE[t].prefix = USIZE_MAX - 1
          /\ failed[t] = 0 /\ pc[t] = "idle"
====
